---------------------------- MODULE Spec2Model ----------------------------
(***************************************************************************)
(* Article downloader (src/script.py): link discovery, date and title      *)
(* cascades, text-backup naming, bounded-retry fetch and the compilation   *)
(* loop of main().  Python strings are sequences of one-character strings. *)
(***************************************************************************)
EXTENDS Integers, Sequences, FiniteSets, TLC

VARIABLES
    call,          \* frame of the function under test: its name and arguments
    result,        \* <<>> while the call is pending, <<value>> once it returned
    files,         \* names of the files present in the output directory
    saveLog,       \* history: one entry per save_article_text call
    pc,            \* position of main()
    article_urls,  \* main(): discovered URLs, later the sorted URLs
    idx,           \* main(): index of the URL being processed (for-loop)
    sorted_urls,   \* main(): (date, url) pairs, with the tier that gave the date
    articles,      \* main(): (title, url) pairs handed to create_epub
    attempt,       \* fetch_page_content: loop variable
    fstate,        \* fetch_page_content: "idle", "req" (about to request), "sleep"
    reqLog,        \* history: outcome of each request of the current fetch call
    nsleep,        \* history: sleeps made by the current fetch call
    lastFetch,     \* history: summary of the last finished fetch call
    outcome,       \* history: url -> what happened to it in the second loop
    discovered,    \* history: the URLs as extract_article_urls returned them
    document       \* "none", "handed" (create_epub past its guard), "epub", "mobi", "failed"

vars == <<call, result, files, saveLog, pc, article_urls, idx, sorted_urls,
          articles, attempt, fstate, reqLog, nsleep, lastFetch, outcome,
          discovered, document>>

mainVars == <<pc, article_urls, idx, sorted_urls, articles, attempt, fstate,
              reqLog, nsleep, lastFetch, outcome, discovered, document>>

-----------------------------------------------------------------------------
(* Bounds *)
MaxLinks == 3      \* hrefs on an index page given to extract_article_urls
MaxMetas == 2      \* published-time meta tags in a document
MaxSaves == 3      \* save_article_text calls into one directory
MaxIndex == 2      \* hrefs on the index page fetched by main()

-----------------------------------------------------------------------------
(* Python string primitives *)

Digits == <<"0", "1", "2", "3", "4", "5", "6", "7", "8", "9">>
Lower  == <<"a", "b", "c", "d", "e", "f", "g", "h", "i", "j", "k", "l", "m", "n", "o", "p", "q", "r", "s", "t", "u", "v", "w", "x", "y", "z">>
Upper  == <<"A", "B", "C", "D", "E", "F", "G", "H", "I", "J", "K", "L", "M", "N", "O", "P", "Q", "R", "S", "T", "U", "V", "W", "X", "Y", "Z">>
\* the characters used, in code-point order
Ascii  == <<"\n">> \o <<" ", "!", "\"", "#", "%", "&", "'", "(", ")", "*", "+", ",", "-", ".", "/", "0", "1", "2", "3", "4", "5", "6", "7", "8", "9", ":", ";", "<", "=", ">", "?", "@">> \o Upper \o <<"[", "\\", "]", "^", "_">> \o Lower \o <<"{", "|", "}", "~">>

Range(s) == { s[k] : k \in DOMAIN s }
IndexIn(c, s) == IF c \in Range(s) THEN CHOOSE k \in DOMAIN s : s[k] = c ELSE 0
Code(c) == IndexIn(c, Ascii)
IsDigit(c) == c \in Range(Digits)
IsLetter(c) == c \in Range(Lower) \cup Range(Upper)
IsSpace(c) == c \in {" ", "\n", "\t"}
DigitVal(c) == IndexIn(c, Digits) - 1
ToUpper(c) == IF c \in Range(Lower) THEN Upper[IndexIn(c, Lower)] ELSE c
ToLower(c) == IF c \in Range(Upper) THEN Lower[IndexIn(c, Upper)] ELSE c
Min(S) == CHOOSE x \in S : \A y \in S : x <= y
Max(S) == CHOOSE x \in S : \A y \in S : x >= y

\* s[a..] (1-based), empty when a is past the end
From(s, a) == SubSeq(s, a, Len(s))
\* sub occurs in s at position k
MatchAt(s, sub, k) == k >= 1 /\ k + Len(sub) - 1 <= Len(s) /\ SubSeq(s, k, k + Len(sub) - 1) = sub
\* Python: sub in s
Contains(s, sub) == \E k \in 1..(Len(s) + 1) : MatchAt(s, sub, k)
\* Python: s.startswith(p)
StartsWith(s, p) == MatchAt(s, p, 1)
\* Python: s.find(sub) as a 1-based position, 0 when absent
Find(s, sub) == IF Contains(s, sub) THEN Min({ k \in 1..(Len(s) + 1) : MatchAt(s, sub, k) }) ELSE 0

\* Python: s.lstrip(chars) / s.rstrip(chars) / s.strip(chars)
LStripSet(s, cs) ==
    LET keep == { k \in DOMAIN s : s[k] \notin cs }
    IN IF keep = {} THEN <<>> ELSE From(s, Min(keep))
RStripSet(s, cs) ==
    LET keep == { k \in DOMAIN s : s[k] \notin cs }
    IN IF keep = {} THEN <<>> ELSE SubSeq(s, 1, Max(keep))
StripSet(s, cs) == RStripSet(LStripSet(s, cs), cs)
WhiteSpace == {" ", "\n", "\t"}
\* Python: s.strip()
Strip(s) == StripSet(s, WhiteSpace)
\* Python: s.replace(a, b) for one-character a and b
Replace(s, a, b) == [k \in DOMAIN s |-> IF s[k] = a THEN b ELSE s[k]]
\* Python: s.split(sep)[0] for a one-character sep
SplitFirst(s, sep) == IF sep \in Range(s) THEN SubSeq(s, 1, IndexIn(sep, s) - 1) ELSE s
\* Python: s.isdigit()
IsDigitStr(s) == Len(s) > 0 /\ \A k \in DOMAIN s : IsDigit(s[k])
\* Python: int(s) for a string of digits
RECURSIVE ToInt(_)
ToInt(s) == IF Len(s) = 0 THEN 0 ELSE 10 * ToInt(SubSeq(s, 1, Len(s) - 1)) + DigitVal(s[Len(s)])
\* Python: str(n) for n >= 0
RECURSIVE ToStr(_)
ToStr(n) == IF n < 10 THEN <<Digits[n + 1]>> ELSE ToStr(n \div 10) \o <<Digits[(n % 10) + 1]>>
\* Python: s.title()
Title(s) == [k \in DOMAIN s |->
               IF k > 1 /\ IsLetter(s[k - 1]) THEN ToLower(s[k]) ELSE ToUpper(s[k])]
\* Python: re.sub(r'\s+', ' ', s)
RECURSIVE CollapseSpace(_)
CollapseSpace(s) ==
    IF Len(s) = 0 THEN <<>>
    ELSE IF IsSpace(s[1])
         THEN <<" ">> \o CollapseSpace(LStripSet(s, WhiteSpace))
         ELSE <<s[1]>> \o CollapseSpace(Tail(s))
\* Python: a < b on strings (code-point lexicographic order)
RECURSIVE StrLess(_, _)
StrLess(a, b) ==
    IF Len(b) = 0 THEN FALSE
    ELSE IF Len(a) = 0 THEN TRUE
    ELSE IF a[1] = b[1] THEN StrLess(Tail(a), Tail(b))
    ELSE Code(a[1]) < Code(b[1])

\* all sequences over S of length at most n
SeqsUpTo(S, n) == UNION { [1..k -> S] : k \in 0..n }
NoDup(s) == \A a, b \in DOMAIN s : a # b => s[a] # s[b]

-----------------------------------------------------------------------------
(* extract_article_urls *)

base_url == <<"h", "t", "t", "p", "s", ":", "/", "/", "j", "a", "c", "k", "-", "v", "a", "n", "l", "i", "g", "h", "t", "l", "y", ".", "c", "o", "m">>

\* line 46: the href names an article
Qualifies(href) == Contains(href, <<"/", "a", "n", "a", "l", "y", "s", "e", "s", "/">>) \/ Contains(href, <<"/", "b", "l", "o", "g", "/">>)

\* line 47: absolute hrefs pass through, relative ones are joined to the base
FullUrl(href) ==
    IF StartsWith(href, <<"h", "t", "t", "p">>) THEN href
    ELSE RStripSet(base_url, {"/"}) \o <<"/">> \o LStripSet(href, {"/"})

\* the loop of lines 43-50 from link k on; acc is article_urls, seen is seen_urls
\* faulty variant: seen_urls holds the raw href instead of the resolved URL
RECURSIVE UrlLoopDupMut(_, _, _, _)
UrlLoopDupMut(links, k, acc, seen) ==
    IF k > Len(links) THEN acc
    ELSE IF Qualifies(links[k]) /\ links[k] \notin seen
         THEN UrlLoopDupMut(links, k + 1, Append(acc, FullUrl(links[k])), seen \cup {links[k]})
         ELSE UrlLoopDupMut(links, k + 1, acc, seen)

RECURSIVE UrlLoop(_, _, _, _)
UrlLoop(links, k, acc, seen) ==
    IF k > Len(links) THEN acc
    ELSE IF Qualifies(links[k]) /\ FullUrl(links[k]) \notin seen
         THEN UrlLoop(links, k + 1, Append(acc, FullUrl(links[k])), seen \cup {FullUrl(links[k])})
         ELSE UrlLoop(links, k + 1, acc, seen)

extract_article_urls(links) == UrlLoop(links, 1, <<>>, {})

\* hrefs an index page may carry
HrefPool == {
    <<"/", "b", "l", "o", "g", "/", "a">>, <<"b", "l", "o", "g", "/", "a">>, <<"h", "t", "t", "p", "s", ":", "/", "/", "j", "a", "c", "k", "-", "v", "a", "n", "l", "i", "g", "h", "t", "l", "y", ".", "c", "o", "m", "/", "b", "l", "o", "g", "/", "a">>,
    <<"/", "a", "n", "a", "l", "y", "s", "e", "s", "/", "b">>, <<"/", "a", "b", "o", "u", "t">>, <<"h", "t", "t", "p", ":", "/", "/", "y", ".", "t", "e", "s", "t", "/", "b", "l", "o", "g", "/", "a">>, <<"/", "b", "l", "o", "g">> }

-----------------------------------------------------------------------------
(* Frames of the pure functions *)

\* summary of a finished fetch_page_content call: n counts the calls
NoFetch == [n |-> 0, res |-> "none", reqLog |-> <<>>, nsleep |-> 0]

MainIdle ==
    /\ pc = "off" /\ article_urls = <<>> /\ idx = 0 /\ sorted_urls = <<>>
    /\ articles = <<>> /\ attempt = 0 /\ fstate = "idle" /\ reqLog = <<>> /\ nsleep = 0
    /\ lastFetch = NoFetch
    /\ outcome = <<>> /\ discovered = <<>> /\ document = "none"

InitUrls ==
    /\ \E links \in SeqsUpTo(HrefPool, MaxLinks) :
          call = [fn |-> "extract_article_urls", links |-> links]
    /\ result = <<>> /\ files = {} /\ saveLog = <<>>
    /\ MainIdle

ExtractUrls ==
    /\ call.fn = "extract_article_urls" /\ result = <<>>
    /\ result' = <<extract_article_urls(call.links)>>
    /\ UNCHANGED <<call, files, saveLog, mainVars>>

NextUrls == ExtractUrls
SpecUrls == InitUrls /\ [][NextUrls]_vars

\* C3: extract_article_urls returns each distinct resolved URL of the
\* qualifying hrefs exactly once, in the order of first occurrence, and the
\* empty sequence when no href qualifies.
QualIdx(links) == { k \in DOMAIN links : Qualifies(links[k]) }
FirstIdx(links, u) == Min({ k \in QualIdx(links) : FullUrl(links[k]) = u })
DedupFirstSeen ==
    (call.fn = "extract_article_urls" /\ result # <<>>) =>
        LET links == call.links
            out == result[1]
            want == { FullUrl(links[k]) : k \in QualIdx(links) }
        IN /\ NoDup(out)
           /\ Len(out) = Cardinality(want)
           /\ Range(out) = want
           /\ \A a, b \in DOMAIN out : a < b => FirstIdx(links, out[a]) < FirstIdx(links, out[b])
           /\ (QualIdx(links) = {} => out = <<>>)

\* a relative and an absolute href of one article, repeated, between two others
DedupFirstSeenWitness ==
    /\ call.fn = "extract_article_urls" /\ result # <<>>
    /\ Len(call.links) = 3
    /\ call.links[1] = <<"/", "b", "l", "o", "g", "/", "a">>
    /\ call.links[2] = <<"h", "t", "t", "p", "s", ":", "/", "/", "j", "a", "c", "k", "-", "v", "a", "n", "l", "i", "g", "h", "t", "l", "y", ".", "c", "o", "m", "/", "b", "l", "o", "g", "/", "a">>
    /\ call.links[3] = <<"/", "a", "n", "a", "l", "y", "s", "e", "s", "/", "b">>
    /\ Len(result[1]) = 2

-----------------------------------------------------------------------------
(* extract_article_date *)

\* a datetime is <<year, month, day>>; None and "no value" are <<>>, a value v is <<v>>
Sentinel == <<1900, 1, 1>>

IsLeap(y) == (y % 4 = 0 /\ y % 100 # 0) \/ y % 400 = 0
DaysIn(y, m) ==
    IF m = 2 THEN (IF IsLeap(y) THEN 29 ELSE 28)
    ELSE IF m \in {4, 6, 9, 11} THEN 30 ELSE 31
\* datetime(y, m, d) does not raise ValueError
ValidDate(dt) ==
    /\ dt[1] >= 1 /\ dt[1] <= 9999
    /\ dt[2] >= 1 /\ dt[2] <= 12
    /\ dt[3] >= 1 /\ dt[3] <= DaysIn(dt[1], dt[2])

DigitsAt(s, k, n) == k + n - 1 <= Len(s) /\ \A j \in k..(k + n - 1) : IsDigit(s[j])
CharAt(s, k, c) == k >= 1 /\ k <= Len(s) /\ s[k] = c

\* the ways r'/(\d{4})/(\d{1,2})/(\d{1,2})/' matches at position k: the lengths
\* of the month and day groups (at most one pair, the slashes fix them)
DateGroupsAt(s, k) ==
    { g \in (1..2) \X (1..2) :
        /\ CharAt(s, k, "/") /\ DigitsAt(s, k + 1, 4) /\ CharAt(s, k + 5, "/")
        /\ DigitsAt(s, k + 6, g[1]) /\ CharAt(s, k + 6 + g[1], "/")
        /\ DigitsAt(s, k + 7 + g[1], g[2]) /\ CharAt(s, k + 7 + g[1] + g[2], "/") }
\* map(int, match.groups()) of the match at position k
DateGroups(s, k) ==
    LET g == CHOOSE h \in DateGroupsAt(s, k) : TRUE
    IN << ToInt(SubSeq(s, k + 1, k + 4)),
          ToInt(SubSeq(s, k + 6, k + 5 + g[1])),
          ToInt(SubSeq(s, k + 7 + g[1], k + 6 + g[1] + g[2])) >>
MatchPositions(s) == { k \in DOMAIN s : DateGroupsAt(s, k) # {} }
\* line 205-207: re.search takes the leftmost match
url_match(url) ==
    IF MatchPositions(url) = {} THEN <<>>
    ELSE <<DateGroups(url, Min(MatchPositions(url)))>>

\* datetime.fromisoformat on a YYYY-MM-DD string; <<>> stands for ValueError
fromisoformat(s) ==
    IF /\ Len(s) = 10 /\ DigitsAt(s, 1, 4) /\ s[5] = "-"
       /\ DigitsAt(s, 6, 2) /\ s[8] = "-" /\ DigitsAt(s, 9, 2)
    THEN LET dt == <<ToInt(SubSeq(s, 1, 4)), ToInt(SubSeq(s, 6, 7)), ToInt(SubSeq(s, 9, 10))>>
         IN IF ValidDate(dt) THEN <<dt>> ELSE <<>>
    ELSE <<>>

MonthNames == << <<"j", "a", "n", "u", "a", "r", "y">>, <<"f", "e", "b", "r", "u", "a", "r", "y">>, <<"m", "a", "r", "c", "h">>, <<"a", "p", "r", "i", "l">>, <<"m", "a", "y">>, <<"j", "u", "n", "e">>,
                 <<"j", "u", "l", "y">>, <<"a", "u", "g", "u", "s", "t">>, <<"s", "e", "p", "t", "e", "m", "b", "e", "r">>, <<"o", "c", "t", "o", "b", "e", "r">>, <<"n", "o", "v", "e", "m", "b", "e", "r">>, <<"d", "e", "c", "e", "m", "b", "e", "r">> >>
LowerStr(s) == [k \in DOMAIN s |-> ToLower(s[k])]
\* a strptime number field of one or two digits within lo..hi
NumField(s, lo, hi) == Len(s) \in 1..2 /\ IsDigitStr(s) /\ ToInt(s) >= lo /\ ToInt(s) <= hi
YearField(s) == Len(s) = 4 /\ IsDigitStr(s)
CheckedDate(dt) == IF ValidDate(dt) THEN <<dt>> ELSE <<>>
\* the three pieces of s around the first two occurrences of sep
Piece1(s, sep) == SplitFirst(s, sep)
Piece2(s, sep) == SplitFirst(From(s, Len(Piece1(s, sep)) + 2), sep)
Piece3(s, sep) == From(s, Len(Piece1(s, sep)) + Len(Piece2(s, sep)) + 3)
TwoSeps(s, sep) == Cardinality({ k \in DOMAIN s : s[k] = sep }) >= 2

\* datetime.strptime(s, fmt); <<>> stands for ValueError
strptime(s, fmt) ==
    IF fmt = "%B %d, %Y" THEN
        LET name == SplitFirst(s, " ")
            rest == LStripSet(From(s, Len(name) + 1), WhiteSpace)
            day  == SplitFirst(rest, ",")
            tail == From(rest, Len(day) + 2)
            year == LStripSet(tail, WhiteSpace)
        IN IF /\ LowerStr(name) \in Range(MonthNames) /\ " " \in Range(s)
              /\ "," \in Range(rest) /\ Len(tail) > 0 /\ IsSpace(tail[1])
              /\ NumField(day, 1, 31) /\ YearField(year)
           THEN CheckedDate(<<ToInt(year), IndexIn(LowerStr(name), MonthNames), ToInt(day)>>)
           ELSE <<>>
    ELSE IF fmt = "%Y-%m-%d" THEN
        IF /\ TwoSeps(s, "-") /\ YearField(Piece1(s, "-"))
           /\ NumField(Piece2(s, "-"), 1, 12) /\ NumField(Piece3(s, "-"), 1, 31)
        THEN CheckedDate(<<ToInt(Piece1(s, "-")), ToInt(Piece2(s, "-")), ToInt(Piece3(s, "-"))>>)
        ELSE <<>>
    ELSE \* "%d/%m/%Y"
        IF /\ TwoSeps(s, "/") /\ NumField(Piece1(s, "/"), 1, 31)
           /\ NumField(Piece2(s, "/"), 1, 12) /\ YearField(Piece3(s, "/"))
        THEN CheckedDate(<<ToInt(Piece3(s, "/")), ToInt(Piece2(s, "/")), ToInt(Piece1(s, "/"))>>)
        ELSE <<>>

date_formats == <<"%B %d, %Y", "%Y-%m-%d", "%d/%m/%Y">>
\* lines 221-225: the first format that parses, <<>> when none does
RECURSIVE TryFormats(_, _)
TryFormats(s, k) ==
    IF k > Len(date_formats) THEN <<>>
    ELSE IF strptime(s, date_formats[k]) # <<>> THEN strptime(s, date_formats[k])
    ELSE TryFormats(s, k + 1)

\* the return statement reached: line 208, 214, 223, 228, or 231 (the handler)
Resolved(dt, tier) == [date |-> dt, tier |-> tier]
Caught == [date |-> Sentinel, tier |-> "except"]

\* lines 216-228
DateTextTier(date_elem) ==
    IF date_elem # <<>> /\ TryFormats(Strip(date_elem[1]), 1) # <<>>
    THEN Resolved(TryFormats(Strip(date_elem[1]), 1)[1], "text")
    ELSE Resolved(Sentinel, "sentinel")

\* lines 210-214; metas are the content attributes of the published-time tags
\* in document order (<<>> for a tag without content)
DateMetaTier(metas, date_elem) ==
    IF metas # <<>>
    THEN IF metas[1] = <<>> THEN Caught      \* None.split raises AttributeError
         ELSE IF fromisoformat(SplitFirst(metas[1][1], "T")) # <<>>
              THEN Resolved(fromisoformat(SplitFirst(metas[1][1], "T"))[1], "meta")
              ELSE Caught
    ELSE DateTextTier(date_elem)

\* faulty variant: the metadata tier is tried before the URL tier
extract_article_date_meta_first(url, metas, date_elem) ==
    IF metas # <<>> /\ metas[1] # <<>> /\ fromisoformat(SplitFirst(metas[1][1], "T")) # <<>>
    THEN Resolved(fromisoformat(SplitFirst(metas[1][1], "T"))[1], "meta")
    ELSE IF url_match(url) # <<>>
         THEN IF ValidDate(url_match(url)[1]) THEN Resolved(url_match(url)[1], "url") ELSE Caught
         ELSE DateMetaTier(metas, date_elem)

extract_article_date(url, metas, date_elem) ==
    IF url_match(url) # <<>>
    THEN IF ValidDate(url_match(url)[1])
         THEN Resolved(url_match(url)[1], "url")
         ELSE Caught                         \* datetime(...) raises ValueError
    ELSE DateMetaTier(metas, date_elem)

Blog == base_url \o <<"/", "b", "l", "o", "g">>
DateUrlPool == {
    Blog \o <<"/", "2", "0", "2", "1", "/", "5", "/", "3", "/", "p", "o", "s", "t">>, Blog \o <<"/", "2", "0", "2", "1", "/", "1", "3", "/", "1", "/", "p", "o", "s", "t">>,
    Blog \o <<"/", "2", "0", "2", "1", "/", "1", "3", "/", "1", "/", "2", "0", "2", "0", "/", "1", "/", "1", "/", "p", "o", "s", "t">>, Blog \o <<"/", "2", "0", "2", "1", "/", "2", "/", "3", "0", "/", "p", "o", "s", "t">>,
    Blog \o <<"/", "p", "o", "s", "t">>, Blog \o <<"/", "2", "0", "2", "1", "/", "5", "/", "3">>, Blog \o <<"/", "1", "8", "5", "0", "/", "1", "/", "1", "/", "o", "l", "d">>,
    Blog \o <<"/", "2", "0", "2", "1", "/", "0", "5", "/", "0", "3", "/", "2", "0", "2", "0", "/", "1", "/", "1", "/", "p", "o", "s", "t">>, Blog \o <<"/", "0", "0", "0", "0", "/", "1", "/", "1", "/", "z", "e", "r", "o">> }
MetaPool == { <<>>, <<<<"2", "0", "2", "2", "-", "0", "1", "-", "0", "1">>>>, <<<<"2", "0", "2", "0", "-", "0", "6", "-", "1", "5", "T", "1", "0", ":", "0", "0", ":", "0", "0", "Z">>>>,
              <<<<"J", "u", "n", "e", " ", "1", "5">>>>, <<<<"2", "0", "2", "2", "-", "1", "3", "-", "0", "1">>>> }
DateTextPool == { <<>>, <<<<"M", "a", "y", " ", "3", ",", " ", "2", "0", "2", "1">>>>, <<<<"\n", " ", "2", "0", "1", "9", "-", "0", "7", "-", "0", "4", " ">>>>, <<<<"4", "/", "7", "/", "2", "0", "1", "9">>>>,
                  <<<<"s", "o", "o", "n">>>>, <<<<"F", "e", "b", "r", "u", "a", "r", "y", " ", "3", "0", ",", " ", "2", "0", "2", "1">>>> }

InitDate ==
    /\ \E url \in DateUrlPool, metas \in SeqsUpTo(MetaPool, MaxMetas), de \in DateTextPool :
          call = [fn |-> "extract_article_date", url |-> url, metas |-> metas, date_elem |-> de]
    /\ result = <<>> /\ files = {} /\ saveLog = <<>>
    /\ MainIdle

ExtractDate ==
    /\ call.fn = "extract_article_date" /\ result = <<>>
    /\ result' = <<extract_article_date(call.url, call.metas, call.date_elem)>>
    /\ UNCHANGED <<call, files, saveLog, mainVars>>

NextDate == ExtractDate
SpecDate == InitDate /\ [][NextDate]_vars

DateDone == call.fn = "extract_article_date" /\ result # <<>>
MetaParses(c) == c # <<>> /\ fromisoformat(SplitFirst(c[1], "T")) # <<>>
MetaDate(c) == fromisoformat(SplitFirst(c[1], "T"))[1]

\* C4: a failure inside one tier is that tier's failure only: an invalid
\* /YYYY/M/D/ segment in the URL with a valid metadata date gives the
\* metadata date, and an unparsable metadata date gives what the date-classed
\* text tier gives.
TierFailureFallsThrough ==
    DateDone =>
        LET r == result[1] IN
        /\ ( /\ url_match(call.url) # <<>> /\ ~ValidDate(url_match(call.url)[1])
             /\ call.metas # <<>> /\ MetaParses(call.metas[1]) )
           => r.date = MetaDate(call.metas[1])
        /\ ( /\ url_match(call.url) = <<>>
             /\ call.metas # <<>> /\ ~MetaParses(call.metas[1]) )
           => r.date = DateTextTier(call.date_elem).date

\* the dates of all the valid /YYYY/M/D/ segments of a URL
ValidSegmentDates(url) ==
    { DateGroups(url, k) : k \in { j \in MatchPositions(url) : ValidDate(DateGroups(url, j)) } }
ParsableMetaDates(metas) ==
    { MetaDate(metas[k]) : k \in { j \in DOMAIN metas : MetaParses(metas[j]) } }

\* C5 as stated: whenever the URL contains a valid /YYYY/M/D/ segment the
\* result is that date, and whenever the URL has no such segment and a
\* parsable metadata date is present the result is the metadata date.
AnyValidSegmentWins ==
    DateDone =>
        LET r == result[1] IN
        /\ ValidSegmentDates(call.url) # {} => r.date \in ValidSegmentDates(call.url)
        /\ (MatchPositions(call.url) = {} /\ ParsableMetaDates(call.metas) # {})
           => r.date \in ParsableMetaDates(call.metas)

\* C5 amended: when the leftmost /YYYY/M/D/ segment of the URL is a valid date
\* the result is that date whatever the metadata and the date text say, and
\* when the URL has no such segment and the first published-time tag carries
\* a parsable date the result is that date whatever the date text says.
FirstMatchPrecedence ==
    DateDone =>
        LET r == result[1] IN
        /\ (url_match(call.url) # <<>> /\ ValidDate(url_match(call.url)[1]))
           => r.date = url_match(call.url)[1]
        /\ (url_match(call.url) = <<>> /\ call.metas # <<>> /\ MetaParses(call.metas[1]))
           => r.date = MetaDate(call.metas[1])

\* the URL date wins over a conflicting metadata date and a conflicting date text
FirstMatchPrecedenceWitness ==
    /\ DateDone
    /\ call.url = Blog \o <<"/", "2", "0", "2", "1", "/", "5", "/", "3", "/", "p", "o", "s", "t">>
    /\ call.metas = << <<<<"2", "0", "2", "2", "-", "0", "1", "-", "0", "1">>>> >>
    /\ call.date_elem = <<<<"4", "/", "7", "/", "2", "0", "1", "9">>>>
    /\ result[1].date = <<2021, 5, 3>>

-----------------------------------------------------------------------------
(* extract_article_content *)

\* A parsed article page, as far as the extractors query it:
\*   container   a div of class post-content, post, article or entry-content exists
\*   header_h1   text of h1.post-title in the first div.post-header, <<>> when absent
\*   og_title    content of the og:title meta tag, <<>> when the tag is absent
\*   title_tag   text of <title>, <<>> when absent
\*   h1, h2      text of the first h1 / h2 of the document, <<>> when absent
\*   canonical   href of link rel=canonical, <<>> when the link or the href is absent
\*   metas, date_elem   as extract_article_date reads them

\* prefix of s before the first character of cs
CutAt(s, cs) ==
    LET hit == { k \in DOMAIN s : s[k] \in cs }
    IN IF hit = {} THEN s ELSE SubSeq(s, 1, Min(hit) - 1)
\* urlparse(url).path
UrlPath(url) ==
    LET plain == CutAt(url, {"?", "#"})
    IN IF Contains(plain, <<":", "/", "/">>)
       THEN LET rest == From(plain, Find(plain, <<":", "/", "/">>) + 3)
            IN IF "/" \in Range(rest) THEN From(rest, IndexIn("/", rest)) ELSE <<>>
       ELSE plain
\* s.split('/')
RECURSIVE SplitSlash(_)
SplitSlash(s) ==
    IF "/" \in Range(s)
    THEN <<SubSeq(s, 1, IndexIn("/", s) - 1)>> \o SplitSlash(From(s, IndexIn("/", s) + 1))
    ELSE <<s>>
\* lines 174-177: the last part that is non-empty and not all digits, titled
RECURSIVE TitleFromParts(_, _)
TitleFromParts(parts, k) ==
    IF k < 1 THEN <<>>
    ELSE IF Len(parts[k]) > 0 /\ ~IsDigitStr(parts[k])
         THEN Title(Replace(parts[k], "-", " "))
         ELSE TitleFromParts(parts, k - 1)

\* lines 140-144; the empty string stands for None as well (both are falsy)
HeaderTitle(soup) == IF soup.header_h1 # <<>> THEN Strip(soup.header_h1[1]) ELSE <<>>
\* lines 148-150
OgTitle(soup) == IF soup.og_title # <<>> THEN Strip(soup.og_title[1]) ELSE <<>>
\* lines 154-158
DocTitle(soup) ==
    IF soup.title_tag # <<>> THEN Strip(SplitFirst(Strip(soup.title_tag[1]), "|")) ELSE <<>>
\* lines 162-166: the loop breaks at the first tag that exists
HeadingTitle(soup) ==
    IF soup.h1 # <<>> THEN Strip(soup.h1[1])
    ELSE IF soup.h2 # <<>> THEN Strip(soup.h2[1])
    ELSE <<>>
\* lines 170-179: a missing link or href raises, and the bare except passes
CanonicalTitle(soup) ==
    IF soup.canonical # <<>>
    THEN LET parts == SplitSlash(UrlPath(soup.canonical[1]))
         IN TitleFromParts(parts, Len(parts))
    ELSE <<>>

UntitledArticle == <<"U", "n", "t", "i", "t", "l", "e", "d", " ", "A", "r", "t", "i", "c", "l", "e">>
\* Python: a if a else b, for strings
OrElse(a, b) == IF a # <<>> THEN a ELSE b

\* lines 137-183
TitleCascade(soup) ==
    OrElse(HeaderTitle(soup),
    OrElse(OgTitle(soup),
    OrElse(DocTitle(soup),
    OrElse(HeadingTitle(soup),
    OrElse(CanonicalTitle(soup), UntitledArticle)))))

\* lines 191-192
CleanTitle(t) == CollapseSpace(Strip(Replace(t, "\n", " ")))

\* lines 126-134 and 194-195: (None, None) is [found |-> FALSE]
extract_article_content(soup) ==
    IF ~soup.container THEN [found |-> FALSE, title |-> <<>>]
    ELSE [found |-> TRUE, title |-> CleanTitle(TitleCascade(soup))]

HeaderPool == { <<>>, <<<<" ">>>>, <<<<"H", "e", "a", "d", "\n", "l", "i", "n", "e", " ", " ", "o", "n", "e">>>> }
OgPool == { <<>>, <<<<>>>>, <<<<"O", "g", " ", "t", "i", "t", "l", "e">>>> }
TitleTagPool == { <<>>, <<<<" ", "|", " ", "B", "l", "o", "g">>>>, <<<<"D", "o", "c", " ", "|", " ", "B", "l", "o", "g">>>> }
H1Pool == { <<>>, <<<<>>>>, <<<<"H", " ", "o", "n", "e">>>> }
H2Pool == { <<>>, <<<<"H", " ", "t", "w", "o">>>> }
CanonicalPool == { <<>>, <<<<"h", "t", "t", "p", "s", ":", "/", "/", "x", ".", "t", "e", "s", "t", "/", "b", "l", "o", "g", "/", "-", "-", "-">>>>,
                   <<<<"h", "t", "t", "p", "s", ":", "/", "/", "x", ".", "t", "e", "s", "t", "/", "2", "0", "2", "1", "/", "5", "/", "m", "y", "-", "p", "o", "s", "t", "/", "?", "r", "e", "f", "=", "1">>>>, <<<<"h", "t", "t", "p", "s", ":", "/", "/", "x", ".", "t", "e", "s", "t", "/", "2", "0", "2", "1", "/", "5", "/">>>> }

\* an h1 inside the header block is an h1 of the document
WellFormed(soup) == soup.header_h1 # <<>> => soup.h1 # <<>>

TitleSoups ==
    { sp \in [container : BOOLEAN, header_h1 : HeaderPool, og_title : OgPool,
              title_tag : TitleTagPool, h1 : H1Pool, h2 : H2Pool,
              canonical : CanonicalPool, metas : {<<>>}, date_elem : {<<>>}] :
        WellFormed(sp) }

InitTitle ==
    /\ \E sp \in TitleSoups : call = [fn |-> "extract_article_content", soup |-> sp]
    /\ result = <<>> /\ files = {} /\ saveLog = <<>>
    /\ MainIdle

ExtractContent ==
    /\ call.fn = "extract_article_content" /\ result = <<>>
    /\ result' = <<extract_article_content(call.soup)>>
    /\ UNCHANGED <<call, files, saveLog, mainVars>>

NextTitle == ExtractContent
SpecTitle == InitTitle /\ [][NextTitle]_vars

ContentFound == call.fn = "extract_article_content" /\ result # <<>> /\ result[1].found

H1Title(soup) == IF soup.h1 # <<>> THEN Strip(soup.h1[1]) ELSE <<>>
H2Title(soup) == IF soup.h2 # <<>> THEN Strip(soup.h2[1]) ELSE <<>>
RECURSIVE FirstNonEmpty(_)
FirstNonEmpty(vals) ==
    IF Len(vals) = 1 \/ Head(vals) # <<>> THEN Head(vals) ELSE FirstNonEmpty(Tail(vals))

\* C6: with a content container, the title is the value of the first tier, in
\* the order header-block heading, og:title, <title> before '|', first h1,
\* first h2, canonical-URL segment, "Untitled Article", whose value is
\* non-empty (whitespace-normalised).
TitleFromFirstNonEmptyTier ==
    ContentFound =>
        result[1].title =
            CleanTitle(FirstNonEmpty(<< HeaderTitle(call.soup), OgTitle(call.soup),
                                        DocTitle(call.soup), H1Title(call.soup),
                                        H2Title(call.soup), CanonicalTitle(call.soup),
                                        UntitledArticle >>))

\* C7: a title returned together with a body is non-empty and has no newline
\* and no run of two or more whitespace characters.
TitleNonEmptyNormalised ==
    ContentFound =>
        LET t == result[1].title IN
        /\ t # <<>>
        /\ "\n" \notin Range(t)
        /\ \A k \in 1..(Len(t) - 1) : ~(IsSpace(t[k]) /\ IsSpace(t[k + 1]))

-----------------------------------------------------------------------------
(* sanitize_filename and save_article_text *)

TruncLen == 100
InvalidChars == {"<", ">", ":", "\"", "/", "\\", "|", "?", "*"}

\* lines 57-59
sanitize_filename(title) ==
    LET safe_title == [k \in DOMAIN title |->
                          IF title[k] \in InvalidChars THEN "_" ELSE title[k]]
    IN StripSet(SubSeq(safe_title, 1, IF Len(safe_title) < TruncLen
                                      THEN Len(safe_title) ELSE TruncLen), {".", " "})

\* lines 240 and 246: counter 0 is the name without suffix
FileName(base, counter) ==
    IF counter = 0 THEN base \o <<".", "t", "x", "t">>
    ELSE base \o <<"_">> \o ToStr(counter) \o <<".", "t", "x", "t">>

\* lines 244-248: the while loop, entered with the given counter
RECURSIVE Probe(_, _, _)
Probe(base, counter, existing) ==
    IF FileName(base, counter) \in existing
    THEN Probe(base, counter + 1, existing)
    ELSE FileName(base, counter)

\* faulty variant: no existence test, the base name is always used
unique_path_overwrite(title, existing) == FileName(sanitize_filename(title), 0)

\* lines 240-248
unique_path(title, existing) ==
    IF FileName(sanitize_filename(title), 0) \in existing
    THEN Probe(sanitize_filename(title), 1, existing)
    ELSE FileName(sanitize_filename(title), 0)

Rep(c, n) == [k \in 1..n |-> c]
SaveTitlePool == {
    <<"a", ":", "b">>, <<" ", "a", "/", "b", ".">>, <<"a", "_", "b", "_", "1">>,
    Rep("x", TruncLen) \o <<"y">>, Rep("x", TruncLen) \o <<"z">> }
InitialDirs == { {}, {<<"a", "_", "b", "_", "2", ".", "t", "x", "t">>} }

InitSave ==
    /\ call = [fn |-> "save_article_text"]
    /\ result = <<>>
    /\ files \in InitialDirs
    /\ saveLog = <<>>
    /\ MainIdle

\* lines 233-263 for one call; open() may raise, and then nothing is written
SaveArticleText ==
    /\ call.fn = "save_article_text"
    /\ Len(saveLog) < MaxSaves
    /\ \E title \in SaveTitlePool, written \in BOOLEAN :
          LET file_path == unique_path(title, files) IN
          /\ files' = IF written THEN files \cup {file_path} ELSE files
          /\ saveLog' = Append(saveLog, [title |-> title, before |-> files,
                                         path |-> file_path, written |-> written])
          /\ result' = IF written THEN <<file_path>> ELSE <<>>
    /\ UNCHANGED <<call, mainVars>>

NextSave == SaveArticleText
SpecSave == InitSave /\ [][NextSave]_vars

\* the smallest counter (0 for no suffix) whose name is free in a directory
SmallestFree(base, existing) ==
    Min({ c \in 0..Cardinality(existing) : FileName(base, c) \notin existing })

\* C8: each save writes to a path that did not exist before the call and
\* removes no earlier file; the path is the base name when it is free, else
\* the base name with the smallest free counter, so that the saves of one
\* base name get increasing suffixes in the order they occur.
BackupNeverOverwrites ==
    /\ \A k \in DOMAIN saveLog :
          LET e == saveLog[k]
              base == sanitize_filename(e.title)
          IN /\ e.path \notin e.before
             /\ e.path = FileName(base, SmallestFree(base, e.before))
             /\ e.before \subseteq files
             /\ e.written => e.path \in files
    /\ \A k, m \in DOMAIN saveLog :
          ( /\ k < m /\ saveLog[k].written
            /\ sanitize_filename(saveLog[k].title) = sanitize_filename(saveLog[m].title) )
          => SmallestFree(sanitize_filename(saveLog[k].title), saveLog[k].before)
             < SmallestFree(sanitize_filename(saveLog[m].title), saveLog[m].before)

\* three titles with one base name, saved in turn: no suffix, _1, then _3
\* because a_b_2.txt was there before
BackupNeverOverwritesWitness ==
    /\ Len(saveLog) = 3
    /\ saveLog[1].before = {<<"a", "_", "b", "_", "2", ".", "t", "x", "t">>}
    /\ saveLog[1].title = <<"a", ":", "b">> /\ saveLog[1].path = <<"a", "_", "b", ".", "t", "x", "t">>
    /\ saveLog[2].title = <<" ", "a", "/", "b", ".">> /\ saveLog[2].path = <<"a", "_", "b", "_", "1", ".", "t", "x", "t">>
    /\ saveLog[3].title = <<"a", ":", "b">> /\ saveLog[3].path = <<"a", "_", "b", "_", "3", ".", "t", "x", "t">>
    /\ \A k \in 1..3 : saveLog[k].written

-----------------------------------------------------------------------------
(* fetch_page_content and main *)

max_retries == 3

\* faulty variant: one attempt too many
is_last_attempt_off_by_one(a) == ~(a < max_retries)
\* line 31: the failed attempt was the last one
is_last_attempt(a) == ~(a < max_retries - 1)

\* datetime comparison
DateLess(a, b) ==
    \/ a[1] < b[1]
    \/ a[1] = b[1] /\ a[2] < b[2]
    \/ a[1] = b[1] /\ a[2] = b[2] /\ a[3] < b[3]
\* tuple comparison of (date, url); the tier is history, not part of the tuple
EntryLess(a, b) == DateLess(a.date, b.date) \/ (a.date = b.date /\ StrLess(a.url, b.url))
\* line 296: list.sort(reverse=True), stable, as insertion from the left
RECURSIVE InsertDesc(_, _)
InsertDesc(sorted, x) ==
    IF sorted = <<>> THEN <<x>>
    ELSE IF EntryLess(Head(sorted), x) THEN <<x>> \o sorted
    ELSE <<Head(sorted)>> \o InsertDesc(Tail(sorted), x)
RECURSIVE sort_reverse(_)
sort_reverse(s) ==
    IF s = <<>> THEN <<>> ELSE InsertDesc(sort_reverse(SubSeq(s, 1, Len(s) - 1)), s[Len(s)])

UrlsOf(s) == [k \in DOMAIN s |-> s[k].url]

\* what a successful request for the index page may return
IndexHrefPool == { <<"/", "b", "l", "o", "g", "/", "b">>, <<"/", "b", "l", "o", "g", "/", "c">>, <<"/", "b", "l", "o", "g", "/", "1", "8", "5", "0", "/", "1", "/", "1", "/", "o", "l", "d">>, <<"/", "a", "b", "o", "u", "t">> }
IndexPages ==
    {[empty |-> TRUE, links |-> <<>>]} \cup
    { [empty |-> FALSE, links |-> l] : l \in SeqsUpTo(IndexHrefPool, MaxIndex) }

\* what a successful request for an article page may return
NoSoup == [container |-> FALSE, header_h1 |-> <<>>, og_title |-> <<>>, title_tag |-> <<>>,
           h1 |-> <<>>, h2 |-> <<>>, canonical |-> <<>>, metas |-> <<>>, date_elem |-> <<>>]
PagePlain == [NoSoup EXCEPT !.container = TRUE, !.header_h1 = <<<<"P", "o", "s", "t">>>>, !.h1 = <<<<"P", "o", "s", "t">>>>]
PageMetaOnly == [NoSoup EXCEPT !.metas = << <<<<"2", "0", "2", "2", "-", "0", "1", "-", "0", "1">>>> >>]
PageHyphen == [NoSoup EXCEPT !.container = TRUE, !.canonical = <<<<"h", "t", "t", "p", "s", ":", "/", "/", "x", ".", "t", "e", "s", "t", "/", "b", "l", "o", "g", "/", "-", "-", "-">>>>]
ArticlePages ==
    {[empty |-> TRUE, soup |-> NoSoup]} \cup
    { [empty |-> FALSE, soup |-> sp] : sp \in {PagePlain, PageMetaOnly, PageHyphen} }

Init ==
    /\ call = [fn |-> "main"] /\ result = <<>>
    /\ files = {} /\ saveLog = <<>>
    /\ pc = "main_page" /\ fstate = "req" /\ attempt = 0
    /\ article_urls = <<>> /\ idx = 0 /\ sorted_urls = <<>> /\ articles = <<>>
    /\ reqLog = <<>> /\ nsleep = 0 /\ lastFetch = NoFetch
    /\ outcome = <<>> /\ discovered = <<>> /\ document = "none"

\* lines 29-32: the request failed and it was not the last attempt
FetchRetry ==
    /\ fstate = "req"
    /\ ~is_last_attempt(attempt)
    /\ fstate' = "sleep"
    /\ reqLog' = Append(reqLog, FALSE)
    /\ UNCHANGED <<call, result, files, saveLog, pc, article_urls, idx, sorted_urls,
                   articles, attempt, nsleep, lastFetch, outcome, discovered, document>>

\* line 32, then the next iteration of the for loop
Sleep ==
    /\ fstate = "sleep"
    /\ fstate' = "req"
    /\ attempt' = attempt + 1
    /\ nsleep' = nsleep + 1
    /\ UNCHANGED <<call, result, files, saveLog, pc, article_urls, idx, sorted_urls,
                   articles, reqLog, lastFetch, outcome, discovered, document>>

\* lines 26-28: the request succeeded and the call returns
FetchReturns ==
    /\ fstate = "req"
    /\ lastFetch' = [n |-> lastFetch.n + 1, res |-> "ok",
                     reqLog |-> Append(reqLog, TRUE), nsleep |-> nsleep]
    /\ attempt' = 0 /\ reqLog' = <<>> /\ nsleep' = 0
\* lines 33-34: the last attempt failed and the call raises
FetchRaises ==
    /\ fstate = "req"
    /\ is_last_attempt(attempt)
    /\ lastFetch' = [n |-> lastFetch.n + 1, res |-> "raised",
                     reqLog |-> Append(reqLog, FALSE), nsleep |-> nsleep]
    /\ attempt' = 0 /\ reqLog' = <<>> /\ nsleep' = 0

\* main returns without a document
Stop ==
    /\ pc' = "done" /\ fstate' = "idle" /\ idx' = 0

\* lines 272-281, and the first fetch of line 287
MainPageFetched ==
    /\ pc = "main_page"
    /\ FetchReturns
    /\ \E page \in IndexPages :
          LET urls == IF page.empty THEN <<>> ELSE extract_article_urls(page.links) IN
          /\ article_urls' = urls
          /\ discovered' = urls
          /\ IF urls = <<>> THEN Stop
             ELSE pc' = "pass1" /\ idx' = 1 /\ fstate' = "req"
    /\ UNCHANGED <<call, result, files, saveLog, sorted_urls, articles, outcome, document>>

\* line 272 raises into the handler of lines 333-334
MainPageFailed ==
    /\ pc = "main_page"
    /\ FetchRaises
    /\ Stop
    /\ UNCHANGED <<call, result, files, saveLog, article_urls, sorted_urls, articles,
                   outcome, discovered, document>>

\* lines 296-301 and 315-320, after the first loop ended with the given pairs
AfterDateLoop(pairs) ==
    /\ sorted_urls' = sort_reverse(pairs)
    /\ article_urls' = UrlsOf(sort_reverse(pairs))
    /\ IF pairs = <<>> THEN Stop
       ELSE pc' = "pass2" /\ idx' = 1 /\ fstate' = "req"

\* the for loop of lines 285-294 moves on with the given pairs
NextDateUrl(pairs) ==
    IF idx < Len(article_urls)
    THEN /\ sorted_urls' = pairs /\ idx' = idx + 1
         /\ UNCHANGED <<pc, fstate, article_urls>>
    ELSE AfterDateLoop(pairs)

\* lines 287-291
DateFetched ==
    /\ pc = "pass1"
    /\ FetchReturns
    /\ \E page \in ArticlePages :
          LET url == article_urls[idx]
              d == extract_article_date(url, page.soup.metas, page.soup.date_elem)
          IN IF page.empty THEN NextDateUrl(sorted_urls)
             ELSE NextDateUrl(Append(sorted_urls, [date |-> d.date, url |-> url, tier |-> d.tier]))
    /\ UNCHANGED <<call, result, files, saveLog, articles, outcome, discovered, document>>

\* lines 292-294
DateFetchFailed ==
    /\ pc = "pass1"
    /\ FetchRaises
    /\ NextDateUrl(sorted_urls)
    /\ UNCHANGED <<call, result, files, saveLog, articles, outcome, discovered, document>>

\* the for loop of lines 301-313 moves on; lines 315-320 and 63 after its end
NextArticleUrl(arts) ==
    /\ articles' = arts
    /\ IF idx < Len(article_urls)
       THEN idx' = idx + 1 /\ UNCHANGED <<pc, fstate, document>>
       ELSE IF arts = <<>>
            THEN Stop /\ UNCHANGED document
            ELSE pc' = "create_epub" /\ fstate' = "idle" /\ idx' = 0 /\ document' = "handed"

\* lines 303-310
ArticleFetched ==
    /\ pc = "pass2"
    /\ FetchReturns
    /\ \E page \in ArticlePages, written \in BOOLEAN :
          LET url == article_urls[idx]
              ex == extract_article_content(page.soup)
          IN IF page.empty
             THEN /\ outcome' = Append(outcome, "empty")
                  /\ NextArticleUrl(articles)
                  /\ UNCHANGED <<files, saveLog>>
             ELSE IF ex.found /\ ex.title # <<>>
             THEN /\ outcome' = Append(outcome, "extracted")
                  /\ NextArticleUrl(Append(articles, [title |-> ex.title, url |-> url]))
                  /\ LET file_path == unique_path(ex.title, files) IN
                     /\ files' = IF written THEN files \cup {file_path} ELSE files
                     /\ saveLog' = Append(saveLog, [title |-> ex.title, before |-> files,
                                                    path |-> file_path, written |-> written])
             ELSE /\ outcome' = Append(outcome, IF ex.found THEN "extracted" ELSE "not_found")
                  /\ NextArticleUrl(articles)
                  /\ UNCHANGED <<files, saveLog>>
    /\ UNCHANGED <<call, result, article_urls, sorted_urls, discovered>>

\* lines 311-313
ArticleFetchFailed ==
    /\ pc = "pass2"
    /\ FetchRaises
    /\ outcome' = Append(outcome, "raised")
    /\ NextArticleUrl(articles)
    /\ UNCHANGED <<call, result, files, saveLog, article_urls, sorted_urls, discovered>>

\* lines 61-102 and 321-323: the writer produces the file or fails
CreateEpub ==
    /\ pc = "create_epub"
    /\ IF articles = <<>>
       THEN pc' = "done" /\ document' = "none"
       ELSE \E ok \in BOOLEAN :
               IF ok THEN pc' = "convert" /\ document' = "epub"
               ELSE pc' = "done" /\ document' = "failed"
    /\ UNCHANGED <<call, result, files, saveLog, article_urls, idx, sorted_urls, articles,
                   attempt, fstate, reqLog, nsleep, lastFetch, outcome, discovered>>

\* lines 104-120 and 326-331: the converter produces the file or fails
ConvertMobi ==
    /\ pc = "convert"
    /\ pc' = "done"
    /\ \E ok \in BOOLEAN : document' = IF ok THEN "mobi" ELSE "epub"
    /\ UNCHANGED <<call, result, files, saveLog, article_urls, idx, sorted_urls, articles,
                   attempt, fstate, reqLog, nsleep, lastFetch, outcome, discovered>>

Next ==
    \/ FetchRetry \/ Sleep
    \/ MainPageFetched \/ MainPageFailed
    \/ DateFetched \/ DateFetchFailed
    \/ ArticleFetched \/ ArticleFetchFailed
    \/ CreateEpub \/ ConvertMobi

Spec == Init /\ [][Next]_vars

Compiling == pc \in {"pass2", "create_epub", "convert", "done"}
DiscoveryOrder(url) == IndexIn(url, discovered)
Unresolved(e) == e.tier \in {"sentinel", "except"}

\* C1: records are compiled by publication date descending and, among records
\* of equal date, in the order in which their URLs were discovered.
SortedByDateThenDiscovery ==
    Compiling =>
        /\ article_urls = UrlsOf(sorted_urls)
        /\ \A p, q \in DOMAIN sorted_urls :
              p < q =>
                 \/ DateLess(sorted_urls[q].date, sorted_urls[p].date)
                 \/ /\ sorted_urls[q].date = sorted_urls[p].date
                    /\ DiscoveryOrder(sorted_urls[p].url) < DiscoveryOrder(sorted_urls[q].url)

\* C2: every record whose date could not be resolved is placed after every
\* record whose date a cascade tier resolved.
UnresolvedSortLast ==
    Compiling =>
        \A p, q \in DOMAIN sorted_urls :
            p < q => ~(Unresolved(sorted_urls[p]) /\ ~Unresolved(sorted_urls[q]))

LoopsOver == pc \in {"create_epub", "convert", "done"}
\* the sorted URLs whose page was fetched and gave a content container
ExtractedUrls ==
    LET ks == { k \in DOMAIN outcome : outcome[k] = "extracted" }
        RECURSIVE Pick(_)
        Pick(k) == IF k > Len(outcome) THEN <<>>
                   ELSE (IF k \in ks THEN <<article_urls[k]>> ELSE <<>>) \o Pick(k + 1)
    IN Pick(1)

\* C9: a failure on one article URL drops that URL only: once the loops are
\* over every sorted URL was processed, the sequence for create_epub is the
\* sorted URLs whose fetch and extraction succeeded, in sorted order, and the
\* run ends without a document only when that sequence is empty or no URL
\* was discovered.
FailureDropsOnlyThatUrl ==
    /\ (LoopsOver /\ sorted_urls # <<>>) =>
          /\ Len(outcome) = Len(article_urls)
          /\ UrlsOf(articles) = ExtractedUrls
    /\ (pc = "done" /\ document = "none") => (articles = <<>> \/ discovered = <<>>)

AllFalse(s) == \A k \in DOMAIN s : ~s[k]
FetchInv ==
    /\ Len(reqLog) <= max_retries /\ AllFalse(reqLog)
    /\ fstate = "req" => Len(reqLog) = attempt /\ nsleep = attempt /\ attempt < max_retries
    /\ fstate = "sleep" => Len(reqLog) = attempt + 1 /\ nsleep = attempt
                           /\ attempt < max_retries - 1
    /\ lastFetch.res # "none" =>
          /\ Len(lastFetch.reqLog) \in 1..max_retries
          /\ lastFetch.nsleep = Len(lastFetch.reqLog) - 1
          /\ AllFalse(SubSeq(lastFetch.reqLog, 1, Len(lastFetch.reqLog) - 1))
          /\ lastFetch.res = "raised" <=>
                (Len(lastFetch.reqLog) = max_retries /\ AllFalse(lastFetch.reqLog))
          /\ lastFetch.res = "ok" <=> lastFetch.reqLog[Len(lastFetch.reqLog)]
RaiseStep == lastFetch'.n = lastFetch.n + 1 /\ lastFetch'.res = "raised"
RaiseIsolated ==
    /\ (RaiseStep /\ pc = "pass1") =>
          /\ Range(sorted_urls') = Range(sorted_urls)
          /\ idx < Len(article_urls) => (pc' = "pass1" /\ idx' = idx + 1 /\ fstate' = "req")
          /\ (idx = Len(article_urls) /\ sorted_urls # <<>>) => (pc' = "pass2" /\ fstate' = "req")
          /\ UNCHANGED <<articles, files, discovered>>
    /\ (RaiseStep /\ pc = "pass2") =>
          /\ UNCHANGED <<articles, files, sorted_urls, article_urls>>
          /\ idx < Len(article_urls) => (pc' = "pass2" /\ idx' = idx + 1 /\ fstate' = "req")
          /\ (idx = Len(article_urls) /\ articles # <<>>) => pc' = "create_epub"

\* C10: a fetch makes at most max_retries requests, returns at the first
\* request that succeeds, sleeps only between two attempts, raises exactly
\* when all max_retries attempts failed, and in main() a raise for an article
\* URL leaves the records of the other URLs alone and the loop goes on.
BoundedRetryIsolated == []FetchInv /\ [][RaiseIsolated]_vars

\* the first article's fetch raised after three requests and two sleeps, and
\* the second article was still compiled
BoundedRetryIsolatedWitness ==
    /\ LoopsOver
    /\ Len(outcome) = 2 /\ outcome[1] = "raised" /\ outcome[2] = "extracted"
    /\ Len(articles) = 1 /\ articles[1].url = article_urls[2]
    /\ document = "handed"

=============================================================================
